---- MODULE Spec2Model ----
(***************************************************************************)
(* Model of src/main.py: the image scraper's acquisition loop              *)
(* (scrape_images), the content-type dispatcher (download_image) and the   *)
(* three handlers (handle_svg, handle_jpeg_xl, handle_generic_image) that  *)
(* classify, filter and persist an image and its JSON sidecar.             *)
(*                                                                         *)
(* Python strings that the code searches or rewrites (Content-Type values, *)
(* SVG width/height attributes) are sequences of one-character strings, so *)
(* that `in`, str.replace, str.strip and float() are computed, not assumed.*)
(* The output folder is a function from file names <<stem, extension>> to  *)
(* file contents.  Network responses, payloads and I/O faults are inputs   *)
(* chosen by the environment.                                              *)
(***************************************************************************)
EXTENDS Integers, Sequences, FiniteSets, TLC

VARIABLES
    pc,        \* position of scrape_images: "idle", "probe", "get", "done"
    img_urls,  \* the list built at lines 200-209
    i,         \* index of the candidate the for loop (line 213) is at
    min_area,  \* the --min-area argument of the current run
    dir,       \* the output folder: file name -> content
    head,      \* the HEAD response of the current candidate (line 216)
    probed,    \* indices of img_urls on which requests.head was called
    failed,    \* indices of img_urls whose handling printed an error
    extracted, \* number of candidates extracted so far, over all runs
    ev         \* what the last step did (inputs, handler calls, log, writes)

vars == <<pc, img_urls, i, min_area, dir, head, probed, failed, extracted, ev>>

---------------------------------------------------------------------------
(* Bounds of the model *)

\* number of candidates the runs of the program extract, all runs together
MaxCandidates == 2

---------------------------------------------------------------------------
(* Python strings as character sequences *)

S_image == <<"i", "m", "a", "g", "e">>
S_svg == <<"i", "m", "a", "g", "e", "/", "s", "v", "g", "+", "x", "m", "l">>
S_jxl == <<"i", "m", "a", "g", "e", "/", "j", "x", "l">>
S_png == <<"i", "m", "a", "g", "e", "/", "p", "n", "g">>
S_svg_jxl == S_svg \o <<";">> \o S_jxl
S_html == <<"t", "e", "x", "t", "/", "h", "t", "m", "l">>
S_empty == << >>
S_px == <<"p", "x">>
S_em == <<"e", "m">>
S_pct == <<"%">>
S_zero == <<"0">>

\* Python's `t in s` on strings
Contains(s, t) ==
    \E k \in 0..(Len(s) - Len(t)) : SubSeq(s, k + 1, k + Len(t)) = t

\* Python's s.replace(old, ""): occurrences removed left to right, not overlapping
RECURSIVE Remove(_, _)
Remove(s, old) ==
    IF Len(s) < Len(old) THEN s
    ELSE IF SubSeq(s, 1, Len(old)) = old
         THEN Remove(SubSeq(s, Len(old) + 1, Len(s)), old)
         ELSE <<s[1]>> \o Remove(Tail(s), old)

\* Python's s.strip(): leading and trailing blanks removed
RECURSIVE LStrip(_)
LStrip(s) == IF s # << >> /\ s[1] = " " THEN LStrip(Tail(s)) ELSE s

RECURSIVE RStrip(_)
RStrip(s) ==
    IF s # << >> /\ s[Len(s)] = " " THEN RStrip(SubSeq(s, 1, Len(s) - 1)) ELSE s

Strip(s) == LStrip(RStrip(s))

Digits == {"0", "1", "2", "3", "4", "5", "6", "7", "8", "9"}

DigitVal(c) ==
    CASE c = "0" -> 0 [] c = "1" -> 1 [] c = "2" -> 2 [] c = "3" -> 3
      [] c = "4" -> 4 [] c = "5" -> 5 [] c = "6" -> 6 [] c = "7" -> 7
      [] c = "8" -> 8 [] c = "9" -> 9

RECURSIVE Decimal(_)
Decimal(s) ==
    IF s = << >> THEN 0
    ELSE 10 * Decimal(SubSeq(s, 1, Len(s) - 1)) + DigitVal(s[Len(s)])

IsDigits(s) == s # << >> /\ \A k \in 1..Len(s) : s[k] \in Digits

\* Python's float(s) on the literals of the model, [sign] digits: the value,
\* or ok = FALSE where float raises ValueError.  The values are whole numbers.
Float(s) ==
    LET t == Strip(s)
        signed == t # << >> /\ t[1] \in {"-", "+"}
        body == IF signed THEN Tail(t) ELSE t
    IN  IF ~IsDigits(body) THEN [ok |-> FALSE, val |-> 0]
        ELSE [ok |-> TRUE,
              val |-> IF signed /\ t[1] = "-" THEN 0 - Decimal(body) ELSE Decimal(body)]

\* Python's `x or y` on strings
StrOr(x, y) == IF x = << >> THEN y ELSE x

---------------------------------------------------------------------------
(* md5_hash *)

Url1 == "http://a.test/1"
Url2 == "http://a.test/2"
Urls == {Url1, Url2}

\* hashlib.md5(url.encode("utf-8")).hexdigest() of the URLs of the model
md5_hash(url) ==
    CASE url = Url1 -> "9758a08f62aa66bb1ad66f56554b2dc5"
      [] url = Url2 -> "144600886051f249e869618addb7361b"

---------------------------------------------------------------------------
(* Inputs: responses, payloads, I/O faults *)

\* Python's d.get(key, default) on a dict, here a function over the present keys
DictGet(d, key, default) == IF key \in DOMAIN d THEN d[key] ELSE default

NoKeys == [k \in {} |-> S_empty]

Attrib(w, h) == ("width" :> w) @@ ("height" :> h)

\* Response bodies.  An "svg" body is well-formed XML with the given root
\* attributes; a "jxl" body is one pyjxl decodes; a "raster" body is one
\* PIL identifies, with the format and size PIL reports; "junk" is none of them.
Svg(a) == [kind |-> "svg", attrib |-> a]

Svg_3_2px == Svg(Attrib(<<"3">>, <<"2", "p", "x">>))
Svg_m3_m2 == Svg(Attrib(<<"-", "3">>, <<"-", "2">>))
Svg_m1_m5em == Svg(Attrib(<<"-", "1">>, <<" ", "-", "5", "e", "m">>))
Svg_x_7 == Svg(Attrib(<<"x">>, <<"7">>))
Svg_0_none == Svg("width" :> <<"0", "%">>)

Jxl_1_5 == [kind |-> "jxl", size |-> <<1, 5>>]

Png_3_2 == [kind |-> "raster", format |-> "PNG", size |-> <<3, 2>>]
Png_1_5 == [kind |-> "raster", format |-> "PNG", size |-> <<1, 5>>]
Gif_3_2 == [kind |-> "raster", format |-> "GIF", size |-> <<3, 2>>]

Junk == [kind |-> "junk"]

Header(ct) == "Content-Type" :> ct

Response(status, headers, content) ==
    [exc |-> FALSE, status_code |-> status, headers |-> headers, content |-> content]

Raised == [exc |-> TRUE, status_code |-> 0, headers |-> NoKeys, content |-> Junk]

HeadOutcomes ==
    { Response(200, Header(S_png), Junk), Response(200, Header(S_html), Junk),
      Response(200, NoKeys, Junk), Response(404, Header(S_png), Junk), Raised }

GetOutcomes ==
    { Response(200, Header(S_svg), Svg_3_2px),
      Response(200, Header(S_svg), Svg_m3_m2),
      Response(200, Header(S_svg), Svg_m1_m5em),
      Response(200, Header(S_svg), Svg_x_7),
      Response(200, Header(S_svg), Svg_0_none),
      Response(200, Header(S_svg), Png_3_2),
      Response(200, Header(S_svg_jxl), Svg_3_2px),
      Response(200, Header(S_jxl), Jxl_1_5),
      Response(200, Header(S_jxl), Junk),
      Response(200, Header(S_png), Png_1_5),
      Response(200, Header(S_png), Gif_3_2),
      Response(200, Header(S_png), Junk),
      Response(200, NoKeys, Png_3_2),
      Response(404, Header(S_html), Junk),
      Raised }

\* Where a file operation of a handler fails: opening the image file, writing
\* it, opening the sidecar; "none" when every operation succeeds.
Faults == {"none", "img_open", "img_write", "meta_open"}

\* The values of --min-area the model runs with
MinAreas == {0, 6}

\* A file cut short by a write that failed after open(..., "w") truncated it
Partial == [kind |-> "partial"]

---------------------------------------------------------------------------
(* The output folder *)

Path(stem, extension) == <<stem, extension>>

\* open_write with the file opened in append mode: an existing file grows
open_append(d, filename, data, openFails, writeFails) ==
    IF openFails THEN [dir |-> d, raised |-> TRUE, opened |-> {}]
    ELSE IF writeFails
         THEN [dir |-> [f \in DOMAIN d \cup {filename} |->
                           IF f = filename THEN Partial ELSE d[f]],
               raised |-> TRUE, opened |-> {filename}]
         ELSE [dir |-> [f \in DOMAIN d \cup {filename} |->
                           IF f # filename THEN d[f]
                           ELSE IF f \in DOMAIN d
                                THEN [kind |-> "appended", old |-> d[f], new |-> data]
                                ELSE data],
               raised |-> FALSE, opened |-> {filename}]

\* with open(filename, "wb") as f: f.write(data)  -- the file is created or
\* truncated by open, then filled; an exception leaves what was done so far.
open_write(d, filename, data, openFails, writeFails) ==
    IF openFails THEN [dir |-> d, raised |-> TRUE, opened |-> {}]
    ELSE IF writeFails
         THEN [dir |-> [f \in DOMAIN d \cup {filename} |->
                           IF f = filename THEN Partial ELSE d[f]],
               raised |-> TRUE, opened |-> {filename}]
         ELSE [dir |-> [f \in DOMAIN d \cup {filename} |->
                           IF f = filename THEN data ELSE d[f]],
               raised |-> FALSE, opened |-> {filename}]

\* the filter with a strict comparison
area_above(width, height, min) == width * height > min

\* width * height >= min_area, the filter of handle_svg and handle_generic_image
area_ok(width, height, min) == width * height >= min

---------------------------------------------------------------------------
(* Classifiers and handlers *)

\* json.dump(metadata, f, indent=2): the sidecar's content
Metadata(url, format, size) ==
    [kind |-> "json", url |-> url, format |-> format, size |-> size]

\* One attribute of get_svg_size: unit suffixes removed, stripped, "" read as "0"
SvgNumber(text) ==
    Float(StrOr(Strip(Remove(Remove(Remove(text, S_px), S_em), S_pct)), S_zero))

get_svg_size(content) ==
    IF content.kind # "svg"
    THEN [size |-> <<0, 0>>, log |-> <<"Error getting SVG size">>]
    ELSE LET width == SvgNumber(DictGet(content.attrib, "width", S_zero))
             height == SvgNumber(DictGet(content.attrib, "height", S_zero))
         IN  IF ~width.ok \/ ~height.ok
             THEN [size |-> <<0, 0>>, log |-> <<"Error getting SVG size">>]
             ELSE IF width.val # 0 /\ height.val # 0
                  THEN [size |-> <<width.val, height.val>>, log |-> << >>]
                  ELSE [size |-> <<0, 0>>, log |-> << >>]

\* What a handler hands back: the folder, the lines printed, the files it
\* opened for writing, whether it obtained a size, and that size.
Result(d, log, written, measured, size) ==
    [dir |-> d, log |-> log, written |-> written, measured |-> measured, size |-> size]

\* The two writes every handler ends with differ only in where the sidecar
\* write stands; this is the sidecar write and the lines around it.
save_metadata(d, url, format, size, log, written, fault, error) ==
    LET w2 == open_write(d, Path(md5_hash(url), "json"), Metadata(url, format, size),
                         fault = "meta_open", FALSE)
    IN  IF w2.raised
        THEN Result(w2.dir, log \o <<error>>, written \cup w2.opened, TRUE, size)
        ELSE Result(w2.dir, log \o <<"Metadata saved">>, written \cup w2.opened, TRUE, size)

handle_svg(url, response_content, folder, min, fault) ==
    LET sz == get_svg_size(response_content)
        width == sz.size[1]
        height == sz.size[2]
        error == "Error handling SVG image"
    IN  IF area_ok(width, height, min)
        THEN LET w1 == open_write(folder, Path(md5_hash(url), "svg"), response_content,
                                  fault = "img_open", fault = "img_write")
             IN  IF w1.raised
                 THEN Result(w1.dir, sz.log \o <<error>>, w1.opened, TRUE, sz.size)
                 ELSE save_metadata(w1.dir, url, "SVG", sz.size,
                                    sz.log \o <<"Downloaded">>, w1.opened, fault, error)
        ELSE Result(folder, sz.log \o <<"Skipped (too small)">>, {}, TRUE, sz.size)

handle_jpeg_xl(url, response_content, folder, fault) ==
    LET error == "Error handling JPEG XL image"
        w1 == open_write(folder, Path(md5_hash(url), "jxl"), response_content,
                         fault = "img_open", fault = "img_write")
    IN  IF w1.raised
        THEN Result(w1.dir, <<error>>, w1.opened, FALSE, <<0, 0>>)
        ELSE IF response_content.kind # "jxl"
             THEN Result(w1.dir, <<error>>, w1.opened, FALSE, <<0, 0>>)
             ELSE save_metadata(w1.dir, url, "JPEG XL", response_content.size,
                                <<"Downloaded">>, w1.opened, fault, error)

\* str.lower() on the format names PIL reports in the model
Lower(format) == CASE format = "PNG" -> "png" [] format = "GIF" -> "gif"

handle_generic_image(url, response_content, folder, min, fault) ==
    LET error == "Error handling image"
    IN  IF response_content.kind # "raster"
        THEN Result(folder, <<"Image format not recognized">>, {}, FALSE, <<0, 0>>)
        ELSE LET size == response_content.size
                 format == response_content.format
             IN  IF area_ok(size[1], size[2], min)
                 THEN LET w1 == open_write(folder, Path(md5_hash(url), Lower(format)),
                                           response_content,
                                           fault = "img_open", fault = "img_write")
                      IN  IF w1.raised
                          THEN Result(w1.dir, <<error>>, w1.opened, TRUE, size)
                          ELSE save_metadata(w1.dir, url, format, size,
                                             <<"Downloaded">>, w1.opened, fault, error)
                 ELSE Result(folder, <<"Skipped (too small)">>, {}, TRUE, size)

---------------------------------------------------------------------------
(* download_image *)

\* dispatch with the two content-type tests in the other order
dispatch_jxl_first(content_type) ==
    IF Contains(content_type, S_jxl) THEN <<"jxl">>
    ELSE IF Contains(content_type, S_svg) THEN <<"svg">>
    ELSE <<"generic">>

\* The if / elif / else of download_image: the handlers a declared content
\* type is handed to, in call order.
dispatch(content_type) ==
    IF Contains(content_type, S_svg) THEN <<"svg">>
    ELSE IF Contains(content_type, S_jxl) THEN <<"jxl">>
    ELSE <<"generic">>

call_handler(name, url, response_content, folder, min, fault) ==
    CASE name = "svg" -> handle_svg(url, response_content, folder, min, fault)
      [] name = "jxl" -> handle_jpeg_xl(url, response_content, folder, fault)
      [] name = "generic" -> handle_generic_image(url, response_content, folder, min, fault)

RECURSIVE call_handlers(_, _, _, _, _, _)
call_handlers(names, url, response_content, folder, min, fault) ==
    IF Len(names) = 1
    THEN call_handler(names[1], url, response_content, folder, min, fault)
    ELSE LET r1 == call_handler(names[1], url, response_content, folder, min, fault)
             r2 == call_handlers(Tail(names), url, response_content, r1.dir, min, fault)
         IN  Result(r2.dir, r1.log \o r2.log, r1.written \cup r2.written,
                    r2.measured, r2.size)

download_image(url, folder, min, response, fault) ==
    IF response.exc
    THEN [calls |-> << >>] @@ Result(folder, <<"Error downloading">>, {}, FALSE, <<0, 0>>)
    ELSE IF response.status_code = 200
         THEN LET content_type == DictGet(response.headers, "Content-Type", S_empty)
                  calls == dispatch(content_type)
              IN  [calls |-> calls]
                  @@ call_handlers(calls, url, response.content, folder, min, fault)
         ELSE [calls |-> << >>]
              @@ Result(folder, <<"Failed to download">>, {}, FALSE, <<0, 0>>)

---------------------------------------------------------------------------
(* scrape_images *)

NoFiles == [f \in {} |-> Partial]

NoResponse == Response(0, NoKeys, Junk)

NoHead == [url |-> ""] @@ NoResponse

\* The record of a step that calls no handler
Event(kind, k, url, log) ==
    [kind |-> kind, idx |-> k, url |-> url, response |-> NoResponse, fault |-> "none",
     calls |-> << >>, log |-> log, written |-> {}, measured |-> FALSE,
     size |-> <<0, 0>>]

\* The lines the code prints for an error, as opposed to a skip or a success
ErrorLines ==
    { "Error getting SVG size", "Error handling SVG image", "Error handling JPEG XL image",
      "Image format not recognized", "Error handling image", "Failed to download",
      "Error downloading", "Error validating image URL" }

IsFailure(log) == \E k \in 1..Len(log) : log[k] \in ErrorLines

\* The lists lines 200-209 can build: any sequence of absolute http URLs
CandidateLists(most) == UNION { [1..n -> Urls] : n \in 0..most }

\* the probe condition without the content-type test
probe_status_only(head_response) == head_response.status_code = 200

\* The condition of line 217-220 on the HEAD response
probe_ok(head_response) ==
    /\ head_response.status_code = 200
    /\ Contains(DictGet(head_response.headers, "Content-Type", S_empty), S_image)

\* The for loop of line 213 once the body is done with candidate k
loop_next(k) ==
    IF k < Len(img_urls) THEN [pc |-> "probe", i |-> k + 1] ELSE [pc |-> "done", i |-> k]

\* the error of a candidate leaving the loop: the run ends at candidate k
loop_abort(k) == [pc |-> "done", i |-> k]

\* except Exception (lines 225-226): the error is printed inside the loop
\* body, and the loop goes on with the next candidate
loop_except(k) == loop_next(k)

Init ==
    /\ pc = "idle"
    /\ img_urls = << >>
    /\ i = 0
    /\ min_area = 0
    /\ dir = NoFiles
    /\ head = NoHead
    /\ probed = {}
    /\ failed = {}
    /\ extracted = 0
    /\ ev = Event("none", 0, "", << >>)

\* scrape_images up to the for loop: the API key, the extraction request, the
\* candidate list.  A missing key raises before the try block; a failed or
\* unsuccessful extraction request is printed; each ends the run with no candidate.
ScrapeImages ==
    /\ pc \in {"idle", "done"}
    /\ extracted < MaxCandidates
    /\ \E m \in MinAreas, outcome \in {"no_key", "exception", "not_ok", "ok"},
          urls \in CandidateLists(MaxCandidates - extracted) :
          LET found == IF outcome = "ok" THEN urls ELSE << >>
              log == CASE outcome = "no_key" -> <<"SCRAPINGBEE_API_KEY not found">>
                       [] outcome = "exception" -> <<"Error during scraping">>
                       [] outcome = "not_ok" -> <<"Failed to scrape the website">>
                       [] outcome = "ok" -> <<"Found valid image URLs">>
          IN  /\ outcome # "ok" => urls = << >>
              /\ min_area' = m
              /\ img_urls' = found
              /\ pc' = IF found = << >> THEN "done" ELSE "probe"
              /\ i' = IF found = << >> THEN 0 ELSE 1
              /\ extracted' = extracted + Len(found)
              /\ ev' = Event("scrape", 0, "", log)
    /\ probed' = {}
    /\ failed' = {}
    /\ head' = NoHead
    /\ UNCHANGED dir

\* Lines 214-226 up to the call of download_image: the HEAD request
Probe ==
    /\ pc = "probe"
    /\ \E h \in HeadOutcomes :
          LET url == img_urls[i]
              after == IF h.exc THEN loop_except(i)
                       ELSE IF probe_ok(h) THEN [pc |-> "get", i |-> i]
                       ELSE loop_next(i)
              log == IF h.exc THEN <<"Error validating image URL">>
                     ELSE IF probe_ok(h) THEN <<"Processing image">>
                     ELSE <<"Skipped (not an image or not accessible)">>
          IN  /\ head' = [url |-> url] @@ h
              /\ pc' = after.pc
              /\ i' = after.i
              /\ ev' = Event("probe", i, url, log)
              /\ failed' = IF IsFailure(log) THEN failed \cup {i} ELSE failed
    /\ probed' = probed \cup {i}
    /\ UNCHANGED <<img_urls, min_area, dir, extracted>>

\* Line 222: download_image on the candidate, whole.  A fault is an input
\* only where the file operation it names is reached.
DownloadImage ==
    /\ pc = "get"
    /\ \E response \in GetOutcomes, fault \in Faults :
          \E r \in {download_image(img_urls[i], dir, min_area, response, fault)} :
          LET url == img_urls[i]
              after == loop_next(i)
          IN  /\ fault # "none" => r # download_image(url, dir, min_area, response, "none")
              /\ dir' = r.dir
              /\ pc' = after.pc
              /\ i' = after.i
              /\ ev' = [kind |-> "download", idx |-> i, url |-> url,
                        response |-> response, fault |-> fault,
                        calls |-> r.calls, log |-> r.log, written |-> r.written,
                        measured |-> r.measured, size |-> r.size]
              /\ failed' = IF IsFailure(r.log) THEN failed \cup {i} ELSE failed
    /\ UNCHANGED <<img_urls, min_area, head, probed, extracted>>

Next == ScrapeImages \/ Probe \/ DownloadImage

Spec == Init /\ [][Next]_vars

---------------------------------------------------------------------------
(* Properties *)

ImagesOf(url) == { f \in DOMAIN dir : f[1] = md5_hash(url) /\ f[2] # "json" }

SidecarOf(url) == Path(md5_hash(url), "json")

Downloaded == ev.kind = "download"

Handled(name) == Downloaded /\ ev.calls = <<name>>

Area == ev.size[1] * ev.size[2]

Printed(line) == \E k \in 1..Len(ev.log) : ev.log[k] = line

DeclaredType == DictGet(ev.response.headers, "Content-Type", S_empty)

\* The file name the handler called stores the body under
StoredAs ==
    Path(md5_hash(ev.url),
         CASE ev.calls = <<"svg">> -> "svg"
           [] ev.calls = <<"jxl">> -> "jxl"
           [] ev.calls = <<"generic">> -> Lower(ev.response.content.format))

\* The last step stored the body and its sidecar, and the folder holds both
Persisted ==
    /\ Downloaded
    /\ Len(ev.calls) = 1
    /\ ev.calls = <<"generic">> => ev.response.content.kind = "raster"
    /\ StoredAs \in DOMAIN dir
    /\ dir[StoredAs] = ev.response.content
    /\ SidecarOf(ev.url) \in DOMAIN dir
    /\ dir[SidecarOf(ev.url)].kind = "json"
    /\ dir[SidecarOf(ev.url)].url = ev.url
    /\ dir[SidecarOf(ev.url)].size = ev.size

\* C1: on every dispatch path, download_image writes a file for a classified
\* candidate only if its measured width * height >= min_area.  (A candidate
\* the handler could not classify is the case of C2.)
C1_PersistOnlyIfAreaMet ==
    Downloaded /\ ev.measured /\ ev.written # {} => Area >= min_area

\* C2: when the JPEG XL decode fails, the failure is printed and no file is
\* written for the candidate.
C2_DecodeFailureWritesNothing ==
    Handled("jxl") /\ ev.fault = "none" /\ ev.response.content.kind # "jxl"
        => Printed("Error handling JPEG XL image") /\ ev.written = {}

\* C3: image files and sidecars are one-to-one: a fingerprint has an image
\* file exactly when it has a sidecar, and then it has exactly one image file.
C3_ImagesAndSidecarsOneToOne ==
    \A u \in Urls :
        Cardinality(ImagesOf(u)) = IF SidecarOf(u) \in DOMAIN dir THEN 1 ELSE 0

\* C4: failures are isolated per candidate: whatever failed before, the loop
\* probes every candidate in order and can always take its next step, a run
\* that is done has probed the whole list, and a candidate that classifies and
\* passes the filter with no file fault is persisted.
C4_FailuresIsolated ==
    /\ pc = "probe" => i \in 1..Len(img_urls) /\ probed = 1..(i - 1) /\ ENABLED Probe
    /\ pc = "get" => i \in 1..Len(img_urls) /\ probed = 1..i /\ ENABLED DownloadImage
    /\ pc = "done" => probed = 1..Len(img_urls)
    /\ failed \subseteq probed
    /\ Downloaded /\ ev.measured /\ Area >= min_area /\ ev.fault = "none" => Persisted

C4_Witness ==
    /\ pc = "done"
    /\ Len(img_urls) >= 2
    /\ 1 \in failed
    /\ Downloaded /\ ev.idx = Len(img_urls) /\ Persisted /\ Printed("Metadata saved")

\* C5: after a successful persist of a URL the folder holds exactly one image
\* file and one sidecar for the URL's fingerprint, both of the last persist.
C5_OneArtifactPerUrl ==
    Downloaded /\ Printed("Metadata saved")
        => /\ ImagesOf(ev.url) = {StoredAs}
           /\ Persisted

\* C6: routing depends on the declared Content-Type alone, in a fixed order:
\* image/svg+xml goes to the SVG handler, else image/jxl to the JPEG XL
\* handler, else (an absent type too) to the generic handler; a 200 response
\* reaches exactly one handler, any other outcome none.
C6_Routing ==
    Downloaded =>
        IF ~ev.response.exc /\ ev.response.status_code = 200
        THEN /\ Len(ev.calls) = 1
             /\ Contains(DeclaredType, S_svg) => ev.calls[1] = "svg"
             /\ ~Contains(DeclaredType, S_svg) /\ Contains(DeclaredType, S_jxl)
                    => ev.calls[1] = "jxl"
             /\ ~Contains(DeclaredType, S_svg) /\ ~Contains(DeclaredType, S_jxl)
                    => ev.calls[1] = "generic"
        ELSE ev.calls = << >>

C6_Witness ==
    /\ Handled("svg")
    /\ DeclaredType = S_svg_jxl
    /\ Persisted

C8_Idempotent ==
    Downloaded =>
        download_image(ev.url, dir, min_area, ev.response, ev.fault).dir = dir

C8_Witness ==
    /\ Downloaded
    /\ ev.idx >= 2
    /\ img_urls[ev.idx - 1] = ev.url
    /\ Persisted /\ Printed("Metadata saved")

\* C9: download_image runs on a candidate only after the HEAD probe of the
\* same URL answered 200 with a Content-Type containing "image"; no other step
\* changes the folder.
C9_GetOnlyAfterProbe ==
    [][ (ev'.kind = "download" \/ dir' # dir)
            => /\ pc = "get"
               /\ ev'.kind = "download"
               /\ head.url = ev'.url
               /\ ~head.exc
               /\ head.status_code = 200
               /\ Contains(DictGet(head.headers, "Content-Type", S_empty), S_image) ]_vars

C9_Witness ==
    /\ ev.kind = "probe"
    /\ head.status_code = 200
    /\ ~Contains(DictGet(head.headers, "Content-Type", S_empty), S_image)
    /\ pc # "get"

\* The root attribute is missing, or its number is zero or negative
NonPositive(attrib, key) ==
    \/ key \notin DOMAIN attrib
    \/ LET n == SvgNumber(attrib[key]) IN n.ok /\ n.val <= 0

\* C10: an SVG whose width or height is missing or non-positive counts as
\* area zero, so with min_area >= 1 it is skipped and never persisted.
C10_NonPositiveSvgIsZeroArea ==
    /\ Handled("svg")
    /\ ev.response.content.kind = "svg"
    /\ \/ NonPositive(ev.response.content.attrib, "width")
       \/ NonPositive(ev.response.content.attrib, "height")
    /\ min_area >= 1
    => /\ Printed("Skipped (too small)")
       /\ ev.written = {}

====
